---- MODULE Spec2Model ----
(***************************************************************************)
(* Masterblog (src/app.py): a blog whose posts live in one JSON file.      *)
(*                                                                         *)
(* Representation.  A Python str is a sequence of one-character atoms      *)
(* (<<"a", " ">>); the text of blog_data.json is a sequence of atoms too:  *)
(* punctuation, quote, backslash, digits, whitespace and the characters of *)
(* strings.  A dictionary key is written with its whole name as one atom   *)
(* ("max_uid"), and the run of blanks that indent=4 puts after a newline   *)
(* is carried by the newline atom.  A dict with the keys of the program is *)
(* a record; what json.load returns is a tagged value [t, v].              *)
(***************************************************************************)
EXTENDS Integers, Sequences, FiniteSets, TLC

\* ------------------------------------------------------------- bounds ----
\* A request that creates a post is explored while the uid it assigns is at
\* most MaxUid and the list it leaves has at most MaxPosts posts.
MaxUid == 2
MaxPosts == 3
\* The same two bounds where file operations may fail, and the number of
\* file operations (reads, writes) that fail in one run of the process.
FaultMaxUid == 1
FaultMaxPosts == 2
MaxFailures == 1
\* The data layer alone: calls of get_next_uid in one run, the longest list
\* of posts a run starts from, the largest counter and uid it starts from.
MaxCalls == 3
MaxLen == 2
MaxCounter == 10
\* The threaded server: the requests one thread handles in a run with two
\* threads.
MaxRequests == 1

\* ------------------------------------------------------- text of JSON ----
WS == {" ", "\n"}
DigitSeq == <<"0", "1", "2", "3", "4", "5", "6", "7", "8", "9">>
IsDigit(a) == \E d \in 1..10 : DigitSeq[d] = a
DigitVal(a) == (CHOOSE d \in 1..10 : DigitSeq[d] = a) - 1
\* A byte sequence that is not UTF-8, and a character outside ASCII.
BadByte == "0xFF"
NonAscii == "U+00E9"
NonAsciiHex == <<"0", "0", "e", "9">>

\* json.dump of an int: decimal digits.
RECURSIVE encode_int(_)
encode_int(n) ==
    IF n < 10 THEN <<DigitSeq[n + 1]>>
    ELSE encode_int(n \div 10) \o <<DigitSeq[(n % 10) + 1]>>

\* json.dump of one character of a str (ensure_ascii is on by default).
encode_char(ch) ==
    CASE ch = "\"" -> <<"\\", "\"">>
      [] ch = "\\" -> <<"\\", "\\">>
      [] ch = "\n" -> <<"\\", "n">>
      [] ch = NonAscii -> <<"\\", "u">> \o NonAsciiHex
      [] OTHER -> <<ch>>

RECURSIVE encode_chars(_)
encode_chars(s) ==
    IF s = <<>> THEN <<>> ELSE encode_char(Head(s)) \o encode_chars(Tail(s))

encode_string(s) == <<"\"">> \o encode_chars(s) \o <<"\"">>

encode_key(k) == encode_string(<<k>>) \o <<":", " ">>

\* json.dump of a post dict, keys in insertion order (create_blog_post).
encode_post(p) ==
    <<"{", "\n">>
    \o encode_key("uid") \o encode_int(p.uid) \o <<",", "\n">>
    \o encode_key("author") \o encode_string(p.author) \o <<",", "\n">>
    \o encode_key("title") \o encode_string(p.title) \o <<",", "\n">>
    \o encode_key("content") \o encode_string(p.content)
    \o <<"\n", "}">>

RECURSIVE encode_items(_)
encode_items(ps) ==
    IF Len(ps) = 1 THEN encode_post(ps[1])
    ELSE encode_post(Head(ps)) \o <<",", "\n">> \o encode_items(Tail(ps))

encode_list(ps) ==
    IF ps = <<>> THEN <<"[", "]">>
    ELSE <<"[", "\n">> \o encode_items(ps) \o <<"\n", "]">>

\* json.dump(blog_data, file, indent=4): the text written to the file.
json_dump(blog_data) ==
    <<"{", "\n">>
    \o encode_key("max_uid") \o encode_int(blog_data.max_uid) \o <<",", "\n">>
    \o encode_key("posts") \o encode_list(blog_data.posts)
    \o <<"\n", "}">>

\* ------------------------------------------------------------ parsing ----
JInt(n) == [t |-> "int", v |-> n]
JStr(s) == [t |-> "str", v |-> s]
JList(xs) == [t |-> "list", v |-> xs]
JDict(pairs) == [t |-> "dict", v |-> pairs]
ParseFail == [ok |-> FALSE, val |-> JInt(0), next |-> 0]
Parsed(val, next) == [ok |-> TRUE, val |-> val, next |-> next]

RECURSIVE skip_ws(_, _)
skip_ws(t, i) ==
    IF i <= Len(t) /\ t[i] \in WS THEN skip_ws(t, i + 1) ELSE i

\* The body of a string literal, from the atom after the opening quote.
RECURSIVE scan_string(_, _, _)
scan_string(t, i, acc) ==
    IF i > Len(t) THEN ParseFail
    ELSE IF t[i] = "\"" THEN Parsed(JStr(acc), i + 1)
    ELSE IF t[i] = "\\" THEN
        IF i + 1 > Len(t) THEN ParseFail
        ELSE IF t[i + 1] \in {"\"", "\\"}
            THEN scan_string(t, i + 2, Append(acc, t[i + 1]))
        ELSE IF t[i + 1] = "n"
            THEN scan_string(t, i + 2, Append(acc, "\n"))
        ELSE IF t[i + 1] = "u" /\ i + 5 <= Len(t)
                /\ SubSeq(t, i + 2, i + 5) = NonAsciiHex
            THEN scan_string(t, i + 6, Append(acc, NonAscii))
        ELSE ParseFail
    ELSE IF t[i] = "\n" THEN ParseFail
    ELSE scan_string(t, i + 1, Append(acc, t[i]))

RECURSIVE scan_int(_, _, _)
scan_int(t, i, acc) ==
    IF i <= Len(t) /\ IsDigit(t[i])
    THEN scan_int(t, i + 1, acc * 10 + DigitVal(t[i]))
    ELSE Parsed(JInt(acc), i)

RECURSIVE parse_value(_, _)
RECURSIVE parse_items(_, _, _)
RECURSIVE parse_pairs(_, _, _)

\* The elements of an array, t[i] being the start of the next element.
parse_items(t, i, acc) ==
    LET r == parse_value(t, i)
        j == skip_ws(t, r.next)
    IN  IF ~r.ok \/ j > Len(t) THEN ParseFail
        ELSE IF t[j] = "]" THEN Parsed(JList(Append(acc, r.val)), j + 1)
        ELSE IF t[j] = "," THEN parse_items(t, j + 1, Append(acc, r.val))
        ELSE ParseFail

\* The members of an object, t[i] being where the next key has to start.
parse_pairs(t, i, acc) ==
    LET k == skip_ws(t, i)
        key == IF k <= Len(t) /\ t[k] = "\""
               THEN scan_string(t, k + 1, <<>>) ELSE ParseFail
        c == skip_ws(t, key.next)
        r == IF key.ok /\ c <= Len(t) /\ t[c] = ":"
             THEN parse_value(t, c + 1) ELSE ParseFail
        j == skip_ws(t, r.next)
        pair == [k |-> key.val.v, val |-> r.val]
    IN  IF ~r.ok \/ j > Len(t) THEN ParseFail
        ELSE IF t[j] = "}" THEN Parsed(JDict(Append(acc, pair)), j + 1)
        ELSE IF t[j] = "," THEN parse_pairs(t, j + 1, Append(acc, pair))
        ELSE ParseFail

parse_value(t, i0) ==
    LET i == skip_ws(t, i0)
    IN  IF i > Len(t) THEN ParseFail
        ELSE IF t[i] = "{" THEN
            LET j == skip_ws(t, i + 1)
            IN  IF j <= Len(t) /\ t[j] = "}" THEN Parsed(JDict(<<>>), j + 1)
                ELSE parse_pairs(t, j, <<>>)
        ELSE IF t[i] = "[" THEN
            LET j == skip_ws(t, i + 1)
            IN  IF j <= Len(t) /\ t[j] = "]" THEN Parsed(JList(<<>>), j + 1)
                ELSE parse_items(t, j, <<>>)
        ELSE IF t[i] = "\"" THEN scan_string(t, i + 1, <<>>)
        ELSE IF t[i] = "0" THEN Parsed(JInt(0), i + 1)
        ELSE IF IsDigit(t[i]) THEN scan_int(t, i, 0)
        ELSE ParseFail

\* json.load(file): one value, then nothing but whitespace; a failure is
\* json.JSONDecodeError.
json_load(t) ==
    LET r == parse_value(t, 1)
    IN  IF r.ok /\ skip_ws(t, r.next) = Len(t) + 1 THEN r ELSE ParseFail

\* ------------------------------------------------ values of the program ----
VARIABLES
    file,           \* blog_data.json: [exists, text]
    default_posts,  \* the list object held by DEFAULT_BLOG_STRUCTURE["posts"]
    started,        \* "no", or how the process was started: "main", "import"
    last,           \* the request handled last and its outcome
    assigned,       \* history: every uid given to a post so far
    deleted,        \* history: the uids of the posts delete() took out of the file
    io_failures,    \* history: the file operations that failed so far
    mem,            \* data layer alone: the blog_data dict a caller holds
    mem0,           \* data layer alone: the dict the caller started with
    returned,       \* data layer alone: what get_next_uid returned, in order
    reloaded_at,    \* data layer alone: Len(returned) at the last save and load
    fn,             \* data layer alone: the call made last and its result
    threads,        \* threaded server: the request each worker thread handles
    checked         \* validation alone: the fields validated and the message

hvars == <<mem, mem0, returned, reloaded_at, fn, threads, checked>>
vars ==
    <<file, default_posts, started, last, assigned, deleted, io_failures, hvars>>

NoFile == [exists |-> FALSE, text |-> <<>>]
FileOf(text) == [exists |-> TRUE, text |-> text]

\* DEFAULT_BLOG_STRUCTURE: the counter is rebound in copies only, the list
\* object under "posts" is the one object `dposts` for the whole process.
DEFAULT_BLOG_STRUCTURE(dposts) == [max_uid |-> 0, posts |-> dposts]

\* dict.copy() is a shallow copy: a new dict whose "posts" is the same list.
dict_copy(d) == [data |-> d, shared |-> TRUE]

\* Reading a parsed value the way the handlers do: data["max_uid"],
\* data["posts"], post["author"], ...  Only a dict with exactly the keys of
\* the program is a store; the other parsed values the model meets are {}
\* and [], on which the first subscript raises KeyError / TypeError.
KeySet(j) == {j.v[i].k : i \in 1..Len(j.v)}
Get(j, k) ==
    j.v[CHOOSE i \in 1..Len(j.v) :
            /\ j.v[i].k = <<k>>
            /\ \A m \in (i + 1)..Len(j.v) : j.v[m].k # <<k>>].val

IsPostDict(j) ==
    /\ j.t = "dict"
    /\ KeySet(j) = {<<"uid">>, <<"author">>, <<"title">>, <<"content">>}
    /\ Get(j, "uid").t = "int"
    /\ Get(j, "author").t = "str"
    /\ Get(j, "title").t = "str"
    /\ Get(j, "content").t = "str"

IsStoreDict(j) ==
    /\ j.t = "dict"
    /\ KeySet(j) = {<<"max_uid">>, <<"posts">>}
    /\ Get(j, "max_uid").t = "int"
    /\ Get(j, "posts").t = "list"
    /\ \A i \in 1..Len(Get(j, "posts").v) : IsPostDict(Get(j, "posts").v[i])

as_post(j) ==
    [uid |-> Get(j, "uid").v, author |-> Get(j, "author").v,
     title |-> Get(j, "title").v, content |-> Get(j, "content").v]

as_store(j) ==
    [max_uid |-> Get(j, "max_uid").v,
     posts |-> [i \in 1..Len(Get(j, "posts").v) |-> as_post(Get(j, "posts").v[i])]]

\* ---------------------------------------------------- file operations ----
ReadOutcomes == {"ok", "ioerror"}
\* open(.., "w") fails and leaves the file alone, or it truncates the file
\* and the write fails afterwards (every proper prefix of the text is invalid
\* JSON; the model keeps the empty one).
WriteOutcomes == {"ok", "open_fails", "write_fails"}

\* load_blog_data(): kind "store" with the dict it returns and whether its
\* list is the shared default list; kind "other" when json.load returned
\* something else; kind "raise" when an exception leaves the function
\* (UnicodeDecodeError is a ValueError, caught by neither except clause).
load_blog_data(f, dposts, rd) ==
    LET dflt(src) ==
            [kind |-> "store", src |-> src,
             data |-> dict_copy(DEFAULT_BLOG_STRUCTURE(dposts)).data,
             shared |-> dict_copy(DEFAULT_BLOG_STRUCTURE(dposts)).shared]
    IN  IF ~f.exists THEN dflt("absent")
        ELSE IF rd = "ioerror" THEN dflt("ioerror")
        ELSE IF \E i \in 1..Len(f.text) : f.text[i] = BadByte
            THEN [kind |-> "raise", src |-> "undecodable",
                  data |-> DEFAULT_BLOG_STRUCTURE(<<>>), shared |-> FALSE]
        ELSE LET r == json_load(f.text)
             IN  IF ~r.ok THEN dflt("corrupt")
                 ELSE IF IsStoreDict(r.val)
                     THEN [kind |-> "store", src |-> "file",
                           data |-> as_store(r.val), shared |-> FALSE]
                 ELSE [kind |-> "other", src |-> "file",
                       data |-> DEFAULT_BLOG_STRUCTURE(<<>>), shared |-> FALSE]

\* Mutant: the error is raised when the text is already in the file.
save_blog_data_late_error(f, blog_data, wr) ==
    FileOf(json_dump(blog_data))

\* Mutant: the file opened with "a" instead of "w".
save_blog_data_append(f, blog_data, wr) ==
    CASE wr = "ok" -> FileOf(f.text \o json_dump(blog_data))
      [] wr = "open_fails" -> f
      [] wr = "write_fails" -> FileOf(f.text)

\* save_blog_data(blog_data): the file afterwards; IOError is swallowed.
save_blog_data(f, blog_data, wr) ==
    CASE wr = "ok" -> FileOf(json_dump(blog_data))
      [] wr = "open_fails" -> f
      [] wr = "write_fails" -> FileOf(<<>>)

\* ---------------------------------------------------- data operations ----
\* Mutant: the counter is computed again from the posts that are left.
get_next_uid_recount(blog_data) ==
    LET uids == {blog_data.posts[i].uid : i \in 1..Len(blog_data.posts)}
        top == IF uids = {} THEN 0
               ELSE CHOOSE u \in uids : \A w \in uids : w <= u
    IN  [blog_data |-> [blog_data EXCEPT !.max_uid = top + 1], ret |-> top + 1]

\* Mutant: the new value is returned and never stored in the dict.
get_next_uid_unstored(blog_data) ==
    [blog_data |-> blog_data, ret |-> blog_data.max_uid + 1]

\* Mutant: the counter is returned before it is incremented.
get_next_uid_old(blog_data) ==
    [blog_data |-> [blog_data EXCEPT !.max_uid = @ + 1],
     ret |-> blog_data.max_uid]

\* get_next_uid: the dict after the call and the value returned.
get_next_uid(blog_data) ==
    LET d == [blog_data EXCEPT !.max_uid = @ + 1]
    IN  [blog_data |-> d, ret |-> d.max_uid]

\* Mutant: the loop does not return at the first match, the last one wins.
find_post_by_uid_last(blog_posts, post_uid) ==
    IF \E i \in 1..Len(blog_posts) : blog_posts[i].uid = post_uid
    THEN CHOOSE i \in 1..Len(blog_posts) :
            /\ blog_posts[i].uid = post_uid
            /\ \A m \in (i + 1)..Len(blog_posts) : blog_posts[m].uid # post_uid
    ELSE 0

\* find_post_by_uid: the position of the post returned, 0 for None.
find_post_by_uid(blog_posts, post_uid) ==
    IF \E i \in 1..Len(blog_posts) : blog_posts[i].uid = post_uid
    THEN CHOOSE i \in 1..Len(blog_posts) :
            /\ blog_posts[i].uid = post_uid
            /\ \A m \in 1..(i - 1) : blog_posts[m].uid # post_uid
    ELSE 0

create_blog_post(author, title, content, post_uid) ==
    [uid |-> post_uid, author |-> author, title |-> title, content |-> content]

\* list.remove(x): drops the first element equal to x.
list_remove(xs, x) ==
    LET k == CHOOSE i \in 1..Len(xs) :
                xs[i] = x /\ \A m \in 1..(i - 1) : xs[m] # x
    IN  SubSeq(xs, 1, k - 1) \o SubSeq(xs, k + 1, Len(xs))

\* Mutant: the post at the end of the list is removed, blog_posts.pop().
delete_post_from_list_pop(blog_posts, post_uid) ==
    IF find_post_by_uid(blog_posts, post_uid) # 0
    THEN [posts |-> SubSeq(blog_posts, 1, Len(blog_posts) - 1), ret |-> TRUE]
    ELSE [posts |-> blog_posts, ret |-> FALSE]

\* delete_post_from_list: the list afterwards and the value returned (a post
\* dict has four keys, so it is truthy whenever it is not None).
delete_post_from_list(blog_posts, post_uid) ==
    LET post_to_delete == find_post_by_uid(blog_posts, post_uid)
    IN  IF post_to_delete # 0
        THEN [posts |-> list_remove(blog_posts, blog_posts[post_to_delete]),
              ret |-> TRUE]
        ELSE [posts |-> blog_posts, ret |-> FALSE]

\* ---------------------------------------------------------- validation ----
RECURSIVE lstrip(_)
lstrip(s) == IF s # <<>> /\ Head(s) \in WS THEN lstrip(Tail(s)) ELSE s
RECURSIVE rstrip(_)
rstrip(s) ==
    IF s # <<>> /\ s[Len(s)] \in WS THEN rstrip(SubSeq(s, 1, Len(s) - 1)) ELSE s
strip(s) == rstrip(lstrip(s))

\* extract_form_data: a field missing from the form is the empty string.
extract_form_data(form) ==
    [author |-> strip(form.author), title |-> strip(form.title),
     content |-> strip(form.content)]

\* Mutant: the content is checked before the title.
validate_blog_data_content_first(author, title, content) ==
    IF author = <<>> THEN "Author name is required"
    ELSE IF content = <<>> THEN "Post content is required"
    ELSE IF title = <<>> THEN "Post title is required"
    ELSE ""

\* Mutant: the check of the title is missing.
validate_blog_data_no_title(author, title, content) ==
    IF author = <<>> THEN "Author name is required"
    ELSE IF content = <<>> THEN "Post content is required"
    ELSE ""

validate_blog_data(author, title, content) ==
    IF author = <<>> THEN "Author name is required"
    ELSE IF title = <<>> THEN "Post title is required"
    ELSE IF content = <<>> THEN "Post content is required"
    ELSE ""

\* -------------------------------------------------------- initialization ----
\* Mutant: the sample data written with "max_uid": 0.
sample_data_counter_0 ==
    [max_uid |-> 0,
     posts |-> <<create_blog_post(<<"John Doe">>, <<"First Post">>,
                                  <<"This is my first post.">>, 0),
                 create_blog_post(<<"Jane Doe">>, <<"Second Post">>,
                                  <<"This is another post.">>, 1)>>]

sample_data ==
    [max_uid |-> 1,
     posts |-> <<create_blog_post(<<"John Doe">>, <<"First Post">>,
                                  <<"This is my first post.">>, 0),
                 create_blog_post(<<"Jane Doe">>, <<"Second Post">>,
                                  <<"This is another post.">>, 1)>>]

\* Mutant: the sample data is written whether or not the file exists.
initialize_sample_data_always(f, wr) ==
    save_blog_data(f, sample_data, wr)

\* initialize_sample_data(): the file afterwards.
initialize_sample_data(f, wr) ==
    IF ~f.exists THEN save_blog_data(f, sample_data, wr) ELSE f

\* ------------------------------------------------------ route handlers ----
\* What a handler leaves behind: the response, the file, the shared default
\* list, where load took the data from ("none": load not called), what save
\* did ("none": save not called), the validation message, the uid given to
\* a new post (-1: none) and the length of the list the handler worked on.
\* Every handler below takes `ld`, the value its call of load_blog_data()
\* returns: the call reads the file and the default and changes neither.
Outcome(resp, f, dposts, load, save, error, new_uid, nposts) ==
    [resp |-> resp, file |-> f, dposts |-> dposts, load |-> load,
     save |-> save, error |-> error, new_uid |-> new_uid, nposts |-> nposts]

\* An exception that leaves the handler: Flask answers 500, nothing is saved.
Raised(f, dposts, ld) ==
    Outcome("server_error_500", f, dposts, ld.src, "none", "", -1, 0)

\* index(): GET /
index(f, dposts, ld) ==
    IF ld.kind # "store" THEN Raised(f, dposts, ld)
    ELSE Outcome("list_page", f, dposts, ld.src, "none", "", -1,
                 Len(ld.data.posts))

\* Mutant: the new post is put at the head of the list, insert(0, new_post).
add_at_head(method, form, f, dposts, ld, wr) ==
    IF method = "POST" THEN
        LET fd == extract_form_data(form)
            error_message == validate_blog_data(fd.author, fd.title, fd.content)
            g == get_next_uid(ld.data)
            new_post == create_blog_post(fd.author, fd.title, fd.content, g.ret)
            blog_data == [g.blog_data EXCEPT !.posts = <<new_post>> \o @]
        IN  IF error_message # ""
            THEN Outcome("add_form_error", f, dposts, "none", "none",
                         error_message, -1, 0)
            ELSE IF ld.kind # "store" THEN Raised(f, dposts, ld)
            ELSE Outcome("redirect_index",
                         save_blog_data(f, blog_data, wr),
                         IF ld.shared THEN blog_data.posts ELSE dposts,
                         ld.src, wr, "", g.ret, Len(blog_data.posts))
    ELSE Outcome("add_form", f, dposts, "none", "none", "", -1, 0)

\* add(): GET /add and POST /add
add(method, form, f, dposts, ld, wr) ==
    IF method = "POST" THEN
        LET fd == extract_form_data(form)
            error_message == validate_blog_data(fd.author, fd.title, fd.content)
            g == get_next_uid(ld.data)
            new_post == create_blog_post(fd.author, fd.title, fd.content, g.ret)
            blog_data == [g.blog_data EXCEPT !.posts = Append(@, new_post)]
        IN  IF error_message # ""
            THEN Outcome("add_form_error", f, dposts, "none", "none",
                         error_message, -1, 0)
            ELSE IF ld.kind # "store" THEN Raised(f, dposts, ld)
            ELSE Outcome("redirect_index",
                         save_blog_data(f, blog_data, wr),
                         IF ld.shared THEN blog_data.posts ELSE dposts,
                         ld.src, wr, "", g.ret, Len(blog_data.posts))
    ELSE Outcome("add_form", f, dposts, "none", "none", "", -1, 0)

\* Mutant: save_blog_data is called whether or not a post was deleted.
delete_always_saves(post_uid, f, dposts, ld, wr) ==
    LET d == delete_post_from_list(ld.data.posts, post_uid)
        blog_data == [ld.data EXCEPT !.posts = d.posts]
    IN  IF ld.kind # "store" THEN Raised(f, dposts, ld)
        ELSE Outcome("redirect_index",
                     save_blog_data(f, blog_data, wr),
                     IF ld.shared THEN blog_data.posts ELSE dposts,
                     ld.src, wr, "", -1, Len(blog_data.posts))

\* delete(post_uid): GET /delete/<int:post_uid>
delete(post_uid, f, dposts, ld, wr) ==
    LET d == delete_post_from_list(ld.data.posts, post_uid)
        blog_data == [ld.data EXCEPT !.posts = d.posts]
        was_deleted == d.ret
    IN  IF ld.kind # "store" THEN Raised(f, dposts, ld)
        ELSE IF was_deleted
            THEN Outcome("redirect_index",
                         save_blog_data(f, blog_data, wr),
                         IF ld.shared THEN blog_data.posts ELSE dposts,
                         ld.src, wr, "", -1, Len(blog_data.posts))
        ELSE Outcome("redirect_index", f, dposts, ld.src, "none", "", -1,
                     Len(blog_data.posts))

\* update(post_uid): GET and POST /update/<int:post_uid>
update(method, post_uid, form, f, dposts, ld, wr) ==
    LET post == find_post_by_uid(ld.data.posts, post_uid)
        fd == extract_form_data(form)
        error_message == validate_blog_data(fd.author, fd.title, fd.content)
        blog_data == [ld.data EXCEPT !.posts[post].author = fd.author,
                                     !.posts[post].title = fd.title,
                                     !.posts[post].content = fd.content]
        n == Len(ld.data.posts)
    IN  IF ld.kind # "store" THEN Raised(f, dposts, ld)
        ELSE IF post = 0
            THEN Outcome("not_found_404", f, dposts, ld.src, "none", "", -1, n)
        ELSE IF method = "POST" THEN
            IF error_message # ""
            THEN Outcome("update_form_error", f, dposts, ld.src, "none",
                         error_message, -1, n)
            ELSE Outcome("redirect_index",
                         save_blog_data(f, blog_data, wr),
                         IF ld.shared THEN blog_data.posts ELSE dposts,
                         ld.src, wr, "", -1, n)
        ELSE Outcome("update_form", f, dposts, ld.src, "none", "", -1, n)

\* ------------------------------------------------------------- inputs ----
Form(a, t, c) == [author |-> a, title |-> t, content |-> c]
NoForm == Form(<<>>, <<>>, <<>>)
\* request.form of a submission: two that pass validation (one of them with
\* blanks to strip and characters json has to escape), and the ways to fail.
PlainForm == Form(<<"a">>, <<"b">>, <<"c">>)
EscapedForm ==
    Form(<<" ", "a", " ", "\"">>, <<"\\", "n", "\n">>, <<NonAscii, " ", "{">>)
BadForms ==
    {Form(<<>>, <<"b">>, <<"c">>),
     Form(<<"a">>, <<>>, <<"c">>),
     Form(<<"a">>, <<"b">>, <<"\n", " ">>)}
Forms == {PlainForm, EscapedForm} \cup BadForms
\* The submissions explored where saves succeed.
SavedForms == {PlainForm, Form(<<"a">>, <<"b">>, <<"\n", " ">>)}
\* The submissions explored where file operations may fail.
FaultForms == {EscapedForm} \cup BadForms
\* <int:post_uid> of a URL: every uid in use and one never assigned.
Uids(max_uid) == 0..(max_uid + 1)

\* The surroundings of a run: how reads and writes of the file may end, the
\* submissions that arrive, and the bounds of the exploration.
Reliable ==
    [reads |-> {"ok"}, writes |-> {"ok"}, forms |-> Forms,
     max_uid |-> MaxUid, max_posts |-> MaxPosts]
SavesSucceed ==
    [reads |-> ReadOutcomes, writes |-> {"ok"}, forms |-> SavedForms,
     max_uid |-> MaxUid, max_posts |-> MaxPosts]
Faulty ==
    [reads |-> ReadOutcomes, writes |-> WriteOutcomes, forms |-> FaultForms,
     max_uid |-> FaultMaxUid, max_posts |-> FaultMaxPosts]

\* What may be on disk when the process starts: nothing, an empty file,
\* text that is not JSON, JSON that is not a store, bytes that are not UTF-8.
InitialFiles ==
    {NoFile, FileOf(<<>>), FileOf(<<"{", "\"", "max_uid">>),
     FileOf(<<"{", "}">>), FileOf(<<"[", "]", "\n">>), FileOf(<<BadByte>>)}

\* The request handled last: its route, its outcome, and two facts about
\* its input that do not depend on the handler: whether a submitted field is
\* empty once stripped, and whether the store that load returned to it has a
\* post with the uid of the URL ("na": no uid or no load, "nostore": load
\* returned no store).
NoRequest ==
    [op |-> "none", resp |-> "", error |-> "", load |-> "none",
     save |-> "none", new_uid |-> -1, empty |-> FALSE, target |-> "na"]
Handled(op, o, empty, target) ==
    [op |-> op, resp |-> o.resp, error |-> o.error, load |-> o.load,
     save |-> o.save, new_uid |-> o.new_uid, empty |-> empty,
     target |-> target]

HasEmptyField(form) ==
    \E s \in {form.author, form.title, form.content} : strip(s) = <<>>

Target(ld, post_uid) ==
    IF ld.kind # "store" THEN "nostore"
    ELSE IF \E i \in 1..Len(ld.data.posts) : ld.data.posts[i].uid = post_uid
        THEN "present"
    ELSE "absent"

\* The file operations of one request that failed: its read, its write.
Failed(load, save) ==
    (IF load = "ioerror" THEN 1 ELSE 0)
    + (IF save \in {"open_fails", "write_fails"} THEN 1 ELSE 0)

NoCall == [op |-> "none", uid |-> -1, ret |-> FALSE]

\* The worker threads of the server (app.run serves each request in a
\* thread of its own), and a thread between two requests.  A thread keeps
\* the request it handles (route, uid of the URL, form), the file as it was
\* when the handler called load_blog_data(), and what the handler computed
\* from it.  stale: another thread has saved since this one loaded.
Threads == {1, 2}
NoOutcome == Outcome("", NoFile, <<>>, "none", "none", "", -1, 0)
Idle ==
    [pc |-> "idle", n |-> 0, op |-> "none", uid |-> -1, form |-> NoForm,
     base |-> NoFile, stale |-> FALSE, target |-> "na", o |-> NoOutcome]

NoCheck == [author |-> <<>>, title |-> <<>>, content |-> <<>>, ret |-> "none"]

\* ------------------------------------------------------------ actions ----
Init ==
    /\ file \in InitialFiles
    /\ default_posts = <<>>
    /\ started = "no"
    /\ last = NoRequest
    /\ assigned = {}
    /\ deleted = {}
    /\ io_failures = 0
    /\ mem = DEFAULT_BLOG_STRUCTURE(<<>>)
    /\ mem0 = mem
    /\ returned = <<>>
    /\ reloaded_at = -1
    /\ fn = NoCall
    /\ threads = [t \in Threads |-> Idle]
    /\ checked = NoCheck

\* main(): initialize_sample_data(), then app.run().
Main(env) ==
    /\ started = "no"
    /\ \E wr \in env.writes :
        /\ file' = initialize_sample_data(file, wr)
        /\ last' = [NoRequest EXCEPT !.op = "main",
                        !.save = IF file.exists THEN "none" ELSE wr]
    /\ started' = "main"
    /\ assigned' = IF file.exists THEN assigned ELSE assigned \cup {0, 1}
    /\ io_failures' = io_failures + Failed("none", last'.save)
    /\ io_failures' <= MaxFailures
    /\ UNCHANGED <<default_posts, deleted, hvars>>

\* The module imported by a WSGI server or `flask run`: main() is not run.
Import ==
    /\ started = "no"
    /\ started' = "import"
    /\ last' = [NoRequest EXCEPT !.op = "import"]
    /\ UNCHANGED <<file, default_posts, assigned, deleted, io_failures, hvars>>

\* One request handled from its start to its response.
Respond(op, post_uid, o, env, empty, target) ==
    /\ o.new_uid <= env.max_uid
    /\ o.new_uid # -1 => o.nposts <= env.max_posts
    /\ file' = o.file
    /\ default_posts' = o.dposts
    /\ last' = Handled(op, o, empty, target)
    /\ assigned' = IF o.new_uid = -1 THEN assigned ELSE assigned \cup {o.new_uid}
    /\ deleted' = IF op = "delete" /\ target = "present" /\ o.save = "ok"
                  THEN deleted \cup {post_uid} ELSE deleted
    /\ io_failures' = io_failures + Failed(o.load, o.save)
    /\ io_failures' <= MaxFailures
    /\ UNCHANGED <<started, hvars>>

Index(env) ==
    /\ started # "no"
    /\ \E rd \in env.reads :
       \E ld \in {load_blog_data(file, default_posts, rd)} :
       \E o \in {index(file, default_posts, ld)} :
            Respond("index", -1, o, env, FALSE, "na")

AddForm ==
    /\ started # "no"
    /\ \E ld \in {load_blog_data(file, default_posts, "ok")} :
       \E o \in {add("GET", NoForm, file, default_posts, ld, "ok")} :
            Respond("add_form", -1, o, Reliable, FALSE, "na")

AddSubmit(env) ==
    /\ started # "no"
    /\ \E rd \in env.reads :
       \E ld \in {load_blog_data(file, default_posts, rd)} :
       \E form \in env.forms, wr \in env.writes :
       \E o \in {add("POST", form, file, default_posts, ld, wr)} :
            Respond("add_submit", -1, o, env, HasEmptyField(form), "na")

Delete(env) ==
    /\ started # "no"
    /\ \E rd \in env.reads :
       \E ld \in {load_blog_data(file, default_posts, rd)} :
       \E post_uid \in Uids(env.max_uid), wr \in env.writes :
       \E o \in {delete(post_uid, file, default_posts, ld, wr)} :
            Respond("delete", post_uid, o, env, FALSE, Target(ld, post_uid))

UpdateForm(env) ==
    /\ started # "no"
    /\ \E rd \in env.reads :
       \E ld \in {load_blog_data(file, default_posts, rd)} :
       \E post_uid \in Uids(env.max_uid) :
       \E o \in {update("GET", post_uid, NoForm, file, default_posts, ld, "ok")} :
            Respond("update_form", post_uid, o, env, FALSE, Target(ld, post_uid))

UpdateSubmit(env) ==
    /\ started # "no"
    /\ \E rd \in env.reads :
       \E ld \in {load_blog_data(file, default_posts, rd)} :
       \E post_uid \in Uids(env.max_uid), form \in env.forms, wr \in env.writes :
       \E o \in {update("POST", post_uid, form, file, default_posts, ld, wr)} :
            Respond("update_submit", post_uid, o, env, HasEmptyField(form),
                    Target(ld, post_uid))

\* Requests handled one after the other, file operations that may fail, any
\* file on disk at the start.
Next ==
    \/ Main(Faulty)
    \/ Import
    \/ Index(Faulty)
    \/ AddForm
    \/ AddSubmit(Faulty)
    \/ Delete(Faulty)
    \/ UpdateForm(Faulty)
    \/ UpdateSubmit(Faulty)

Spec == Init /\ [][Next]_vars

\* Requests whose saves succeed and whose reads may fail, from a missing
\* file: the process seeds the file (main) or starts on the default store.
InitSaved ==
    /\ file = NoFile
    /\ default_posts = <<>>
    /\ started = "no"
    /\ last = NoRequest
    /\ assigned = {}
    /\ deleted = {}
    /\ io_failures = 0
    /\ mem = DEFAULT_BLOG_STRUCTURE(<<>>)
    /\ mem0 = mem
    /\ returned = <<>>
    /\ reloaded_at = -1
    /\ fn = NoCall
    /\ threads = [t \in Threads |-> Idle]
    /\ checked = NoCheck

NextSaved ==
    \/ Main(SavesSucceed)
    \/ Import
    \/ Index(SavesSucceed)
    \/ AddForm
    \/ AddSubmit(SavesSucceed)
    \/ Delete(SavesSucceed)
    \/ UpdateForm(SavesSucceed)
    \/ UpdateSubmit(SavesSucceed)

SpecSaved == InitSaved /\ [][NextSaved]_vars

\* ------------------------------------------------ the threaded server ----
\* A handler that saves runs in two steps: up to the return of
\* load_blog_data() and the changes it makes to its own blog_data, then
\* save_blog_data() and the response.  Nothing in the code keeps another
\* thread from running between the two.
RenamedForm == Form(<<"x">>, <<"b">>, <<"c">>)

\* The submissions a thread handles: create, delete, update.
Requests(env) ==
    {[op |-> "add_submit", uid |-> -1, form |-> f] : f \in env.forms}
    \cup {[op |-> "delete", uid |-> u, form |-> NoForm] : u \in Uids(env.max_uid)}
    \cup {[op |-> "update_submit", uid |-> u, form |-> f] :
            u \in Uids(env.max_uid), f \in env.forms}

\* The handler of a request on the store `ld` that load returned to it.
Handle(req, f, dposts, ld) ==
    CASE req.op = "add_submit" -> add("POST", req.form, f, dposts, ld, "ok")
      [] req.op = "delete" -> delete(req.uid, f, dposts, ld, "ok")
      [] req.op = "update_submit" ->
            update("POST", req.uid, req.form, f, dposts, ld, "ok")

\* Mutant: the handler holds a lock and loads the file again before it saves.
written_after_reload(th, f, dposts) ==
    IF th.o.save = "none" THEN f
    ELSE Handle(th, f, dposts, load_blog_data(f, dposts, "ok")).file

\* The file after the second step: open(BLOG_DATA_FILE, "w") replaces the
\* whole file by the blog_data of the handler, whatever the file is by then.
written(th, f, dposts) ==
    IF th.o.save = "none" THEN f ELSE th.o.file

\* First step of thread t: blog_data = load_blog_data() and what the
\* handler does to blog_data before it saves.
Load(t, env) ==
    /\ started # "no"
    /\ threads[t].pc # "loaded"
    /\ env.requests = -1 \/ threads[t].n < env.requests
    /\ \E req \in Requests(env) :
       \E ld \in {load_blog_data(file, default_posts, "ok")} :
       \E o \in {Handle(req, file, default_posts, ld)} :
        /\ o.new_uid <= env.max_uid
        /\ o.new_uid # -1 => o.nposts <= env.max_posts
        /\ threads' = [threads EXCEPT ![t] =
                [pc |-> "loaded",
                 n |-> IF env.requests = -1 THEN 0 ELSE threads[t].n + 1,
                 op |-> req.op, uid |-> req.uid,
                 form |-> req.form, base |-> file, stale |-> FALSE,
                 target |-> IF req.op = "add_submit" THEN "na"
                            ELSE Target(ld, req.uid),
                 o |-> o]]
        /\ default_posts' = o.dposts
        /\ assigned' = IF o.new_uid = -1 THEN assigned
                       ELSE assigned \cup {o.new_uid}
    /\ UNCHANGED <<file, started, last, deleted, io_failures, mem, mem0,
                   returned, reloaded_at, fn, checked>>

\* Second step of thread t: save_blog_data(blog_data) when the handler
\* saves, and the response.
Save(t) ==
    /\ threads[t].pc = "loaded"
    /\ file' = written(threads[t], file, default_posts)
    /\ threads' = [u \in Threads |->
            IF u = t THEN [threads[t] EXCEPT !.pc = "done"]
            ELSE IF threads[u].pc = "loaded" /\ threads[t].o.save = "ok"
                THEN [threads[u] EXCEPT !.stale = TRUE]
            ELSE threads[u]]
    /\ last' = Handled(threads[t].op, threads[t].o,
                       threads[t].op # "delete" /\ HasEmptyField(threads[t].form),
                       threads[t].target)
    /\ deleted' = IF /\ threads[t].op = "delete"
                     /\ threads[t].target = "present"
                     /\ threads[t].o.save = "ok"
                  THEN deleted \cup {threads[t].uid} ELSE deleted
    /\ UNCHANGED <<default_posts, started, assigned, io_failures, mem, mem0,
                   returned, reloaded_at, fn, checked>>

\* One thread: requests handled one after the other, no file operation
\* failing, from any file on disk: none, one that holds no store, or the
\* store an earlier run of the process left.  requests: how many requests a
\* thread handles in a run, -1 for any number.
Sequential ==
    [reads |-> {"ok"}, writes |-> {"ok"}, forms |-> {PlainForm, RenamedForm},
     max_uid |-> MaxUid, max_posts |-> MaxPosts, requests |-> -1]

NextSeq ==
    \/ Main(Sequential)
    \/ Import
    \/ Load(1, Sequential)
    \/ Save(1)

PriorRunFile ==
    FileOf(json_dump([max_uid |-> 2,
                      posts |-> <<create_blog_post(<<"a">>, <<"b">>, <<"c">>, 2)>>]))

InitSeq ==
    /\ file \in InitialFiles \cup {PriorRunFile}
    /\ default_posts = <<>>
    /\ started = "no"
    /\ last = NoRequest
    /\ assigned = {}
    /\ deleted = {}
    /\ io_failures = 0
    /\ mem = DEFAULT_BLOG_STRUCTURE(<<>>)
    /\ mem0 = mem
    /\ returned = <<>>
    /\ reloaded_at = -1
    /\ fn = NoCall
    /\ threads = [t \in Threads |-> Idle]
    /\ checked = NoCheck

SpecSeq == InitSeq /\ [][NextSeq]_vars

\* Two threads, the file seeded by main().
Concurrent ==
    [reads |-> {"ok"}, writes |-> {"ok"}, forms |-> {PlainForm},
     max_uid |-> MaxUid, max_posts |-> MaxPosts, requests |-> MaxRequests]

NextConc ==
    \/ Main(Concurrent)
    \/ \E t \in Threads : Load(t, Concurrent)
    \/ \E t \in Threads : Save(t)

SpecConc == InitSaved /\ [][NextConc]_vars

\* ------------------------------------------------- the data layer alone ----
\* The functions of the data layer called in any order on any store: the
\* counter at 0 or about to take one more digit, the posts any list of up to
\* MaxLen posts, uids repeated or not.
ValidFields ==
    {fd \in {extract_form_data(f) : f \in Forms} :
        validate_blog_data(fd.author, fd.title, fd.content) = ""}

Plain == extract_form_data(PlainForm)
Escaped == extract_form_data(EscapedForm)
FnPosts ==
    {create_blog_post(fd.author, fd.title, fd.content, 0) : fd \in ValidFields}
    \cup {create_blog_post(Plain.author, Plain.title, Plain.content, 1),
          create_blog_post(Escaped.author, Escaped.title, Escaped.content,
                           MaxCounter)}

FnUids == {0, 1, MaxCounter}

RECURSIVE Lists(_, _)
Lists(S, n) ==
    IF n = 0 THEN {<<>>}
    ELSE Lists(S, n - 1) \cup {Append(l, x) : l \in Lists(S, n - 1), x \in S}

FnStores ==
    {[max_uid |-> c, posts |-> ps] :
        c \in {0, MaxCounter - 1}, ps \in Lists(FnPosts, MaxLen)}

InitFn ==
    /\ file = NoFile
    /\ default_posts = <<>>
    /\ started = "no"
    /\ last = NoRequest
    /\ assigned = {}
    /\ deleted = {}
    /\ io_failures = 0
    /\ mem \in FnStores
    /\ mem0 = mem
    /\ returned = <<>>
    /\ reloaded_at = -1
    /\ fn = NoCall
    /\ threads = [t \in Threads |-> Idle]
    /\ checked = NoCheck

mainvars ==
    <<default_posts, started, last, assigned, deleted, io_failures, threads,
      checked>>

\* post_uid = get_next_uid(blog_data)
FnNextUid ==
    /\ Len(returned) < MaxCalls
    /\ \E g \in {get_next_uid(mem)} :
        /\ mem' = g.blog_data
        /\ returned' = Append(returned, g.ret)
        /\ fn' = [op |-> "get_next_uid", uid |-> g.ret, ret |-> TRUE]
    /\ UNCHANGED <<file, mainvars, mem0, reloaded_at>>

\* save_blog_data(blog_data); blog_data = load_blog_data()
FnSaveLoad ==
    /\ \E f \in {save_blog_data(file, mem, "ok")} :
       \E ld \in {load_blog_data(f, default_posts, "ok")} :
        /\ file' = f
        /\ mem' = ld.data
        /\ fn' = [op |-> "save_load", uid |-> -1,
                  ret |-> (ld.kind = "store" /\ ld.src = "file")]
    /\ reloaded_at' = Len(returned)
    /\ UNCHANGED <<mainvars, mem0, returned>>

\* delete_post_from_list(blog_data["posts"], post_uid)
FnRemove(post_uid) ==
    /\ \E d \in {delete_post_from_list(mem.posts, post_uid)} :
        /\ mem' = [mem EXCEPT !.posts = d.posts]
        /\ fn' = [op |-> "delete_post_from_list", uid |-> post_uid,
                  ret |-> d.ret]
    /\ UNCHANGED <<file, mainvars, mem0, returned, reloaded_at>>

NextFn ==
    \/ FnNextUid
    \/ FnSaveLoad
    \/ \E post_uid \in FnUids : FnRemove(post_uid)

SpecFn == InitFn /\ [][NextFn]_vars

\* ------------------------------------------------------ validation alone ----
\* validate_blog_data called on any three strings: empty, blank, or not.
FieldValues == {<<>>, <<"a">>, <<" ">>, <<"a", " ", "b">>, <<"0">>}

\* error_message = validate_blog_data(author, title, content)
FnValidate ==
    /\ \E author \in FieldValues, title \in FieldValues, content \in FieldValues :
        checked' = [author |-> author, title |-> title, content |-> content,
                    ret |-> validate_blog_data(author, title, content)]
    /\ UNCHANGED <<file, default_posts, started, last, assigned, deleted,
                   io_failures, mem, mem0, returned, reloaded_at, fn, threads>>

SpecValidate == InitSaved /\ [][FnValidate]_vars

\* ------------------------------------------------------------- claims ----
\* The store a reader finds in the file, when the file holds one.
HoldsStore(f) ==
    /\ f.exists
    /\ load_blog_data(f, <<>>, "ok").kind = "store"
    /\ load_blog_data(f, <<>>, "ok").src = "file"
Persisted == load_blog_data(file, <<>>, "ok").data
EmptyStore == [max_uid |-> 0, posts |-> <<>>]
UniqueUids(posts) ==
    \A i, j \in 1..Len(posts) : i # j => posts[i].uid # posts[j].uid

\* C1: after seed_if_absent at process start and any create, delete and
\* update submissions handled one after the other, no two posts of the
\* persisted store have the same uid.
C1_PersistedUidsUnique ==
    (started = "main" /\ HoldsStore(file)) => UniqueUids(Persisted.posts)

Counter(f) ==
    LET ld == load_blog_data(f, <<>>, "ok")
    IN  IF f.exists /\ ld.kind = "store" /\ ld.src = "file"
        THEN ld.data.max_uid ELSE -1

C4_NextUidSequence ==
    /\ \A i \in 1..Len(returned) : returned[i] = mem0.max_uid + i
    /\ mem.max_uid = mem0.max_uid + Len(returned)

\* C4's case: a second or later call, made after a save and a load that
\* followed an earlier call, the counter taking one more digit on the way.
C4_Witness ==
    /\ fn.op = "get_next_uid"
    /\ reloaded_at >= 1
    /\ Len(returned) > reloaded_at
    /\ mem0.max_uid = MaxCounter - 1

\* C5: a load while the file does not exist returns the empty default store
\* (counter 0, no posts), whatever the process handled before.
C5_MissingFileLoadsEmpty ==
    ~file.exists =>
        \A rd \in ReadOutcomes :
            /\ load_blog_data(file, default_posts, rd).kind = "store"
            /\ load_blog_data(file, default_posts, rd).data = EmptyStore

\* C6: load raises nothing and returns a store with a counter and a list of
\* posts for every condition of the file, the empty default store when the
\* file exists and holds no valid serialized data or cannot be read.
ValidData(text) ==
    /\ \A i \in 1..Len(text) : text[i] # BadByte
    /\ json_load(text).ok
C6_LoadAlwaysUsable ==
    \A rd \in ReadOutcomes :
        /\ load_blog_data(file, default_posts, rd).kind = "store"
        /\ (file.exists /\ (rd = "ioerror" \/ ~ValidData(file.text)))
            => load_blog_data(file, default_posts, rd).data = EmptyStore

\* C7: a successful save followed by a load returns the store that was
\* saved: the same counter, the same posts in the same order with the same
\* four fields.
C7_RoundTrip ==
    [][fn'.op = "save_load" => (fn'.ret /\ mem' = mem)]_vars

\* C7's case: a store with a counter of two digits, a full list of posts and
\* a field json escapes, saved and loaded.
C7_Witness ==
    /\ fn.op = "save_load"
    /\ mem.max_uid >= 10
    /\ Len(mem.posts) = MaxLen
    /\ \E i \in 1..Len(mem.posts) : mem.posts[i].author = Escaped.author

\* C8: delete_post_from_list with a uid that is present removes the first
\* post with that uid, keeps the others in place and returns true; with a
\* uid that is absent it leaves the list as it is and returns false.
RemovedFirst(before, uid, after, ret) ==
    IF \E i \in 1..Len(before) : before[i].uid = uid
    THEN LET k == CHOOSE i \in 1..Len(before) :
                    /\ before[i].uid = uid
                    /\ \A m \in 1..(i - 1) : before[m].uid # uid
         IN  /\ ret
             /\ Len(after) = Len(before) - 1
             /\ \A i \in 1..Len(after) :
                    after[i] = IF i < k THEN before[i] ELSE before[i + 1]
    ELSE ~ret /\ after = before
C8_RemoveByUid ==
    [][fn'.op = "delete_post_from_list"
        => RemovedFirst(mem.posts, fn'.uid, mem'.posts, fn'.ret)]_vars

\* C8's case: a post removed from a list that held two posts with its uid.
C8_Witness ==
    /\ fn.op = "delete_post_from_list"
    /\ fn.ret
    /\ \E i \in 1..Len(mem.posts) : mem.posts[i].uid = fn.uid

\* C9 as stated: a create-submit or update-submit with an empty field is
\* rejected before any repository operation runs: nothing is loaded, nothing
\* is saved, the file is unchanged and the form is displayed again.
C9_RejectedBeforeAnyOperation ==
    [][(last'.op \in {"add_submit", "update_submit"} /\ last'.empty)
        => /\ file' = file
           /\ last'.save = "none"
           /\ last'.load = "none"
           /\ last'.resp \in {"add_form_error", "update_form_error"}]_vars

\* C9 as amended: a create-submit or update-submit with an empty field never
\* saves and leaves the file and the default unchanged. The create-submit is
\* rejected before the store is loaded and displays the form with the error.
\* The update-submit loads the store and looks the post up first: it
\* displays the form with the error when the post is found, answers
\* not-found when it is not, and fails when load returned no store.
C9_EmptyFieldRejected ==
    [][(last'.op \in {"add_submit", "update_submit"} /\ last'.empty)
        => /\ file' = file
           /\ default_posts' = default_posts
           /\ last'.save = "none"
           /\ last'.new_uid = -1
           /\ last'.op = "add_submit"
                => /\ last'.load = "none"
                   /\ last'.resp = "add_form_error"
                   /\ last'.error # ""
           /\ last'.op = "update_submit"
                => /\ last'.load # "none"
                   /\ last'.target = "present"
                        => (last'.resp = "update_form_error" /\ last'.error # "")
                   /\ last'.target = "absent" => last'.resp = "not_found_404"
                   /\ last'.target = "nostore"
                        => last'.resp = "server_error_500"]_vars

\* C9's case: an update-submit with an empty title for a post that exists.
C9_Witness ==
    /\ last.op = "update_submit"
    /\ last.empty
    /\ last.target = "present"
    /\ last.error = "Post title is required"

\* C10: for a uid that no post of the store load returned has, delete and
\* update (form or submit, whatever the fields) do not fail and do not
\* change the file; update answers not-found, delete redirects to the list
\* without a save.
C10_AbsentUid ==
    [][(last'.op \in {"delete", "update_form", "update_submit"}
            /\ last'.target \in {"absent", "nostore"})
        => /\ last'.resp # "server_error_500"
           /\ file' = file
           /\ last'.save = "none"
           /\ last'.op = "delete" => last'.resp = "redirect_index"
           /\ last'.op # "delete" => last'.resp = "not_found_404"]_vars

\* The store in a file that holds one.
StoreIn(f) == load_blog_data(f, <<>>, "ok").data

\* C11: a successful update-submit changes the author, title and content of
\* one post and nothing else of the persisted store: the uid and the
\* position of that post, every other post, the number of posts and the
\* counter are the same in the file before and after.
C11_UpdateChangesOnlyFields ==
    [][(/\ last'.op = "update_submit"
        /\ last'.resp = "redirect_index"
        /\ last'.save = "ok"
        /\ HoldsStore(file))
        => /\ HoldsStore(file')
           /\ StoreIn(file').max_uid = StoreIn(file).max_uid
           /\ Len(StoreIn(file').posts) = Len(StoreIn(file).posts)
           /\ \A i \in 1..Len(StoreIn(file).posts) :
                StoreIn(file').posts[i].uid = StoreIn(file).posts[i].uid
           /\ \E k \in 1..Len(StoreIn(file).posts) :
                \A i \in 1..Len(StoreIn(file).posts) :
                    i # k => StoreIn(file').posts[i] = StoreIn(file).posts[i]]_vars

\* The uids of a list of posts, in the order of the list.
UidsOf(posts) == [i \in 1..Len(posts) |-> posts[i].uid]

\* A step in which thread t saves and answers.
Saving(t) == threads[t].pc = "loaded" /\ threads'[t].pc = "done"

\* The end-to-end scenario, step by step, with the counter d above the
\* largest uid assigned: seed, create, delete(0), update of uid 2 with a new
\* author and the title and content it has.
EndToEnd(d) ==
    /\ (last'.op = "main" /\ ~file.exists)
        => /\ HoldsStore(file')
           /\ UidsOf(StoreIn(file').posts) = <<0, 1>>
           /\ StoreIn(file').max_uid = 1 + d
    /\ (/\ Saving(1)
        /\ threads[1].op = "add_submit"
        /\ HoldsStore(file)
        /\ UidsOf(StoreIn(file).posts) = <<0, 1>>
        /\ last.op = "main")
        => /\ last'.new_uid = 2
           /\ HoldsStore(file')
           /\ StoreIn(file').max_uid = 2 + d
           /\ StoreIn(file').posts =
                Append(StoreIn(file).posts,
                       [uid |-> 2,
                        author |-> strip(threads[1].form.author),
                        title |-> strip(threads[1].form.title),
                        content |-> strip(threads[1].form.content)])
    /\ (/\ Saving(1)
        /\ threads[1].op = "delete"
        /\ threads[1].uid = 0
        /\ HoldsStore(file)
        /\ UidsOf(StoreIn(file).posts) = <<0, 1, 2>>)
        => /\ HoldsStore(file')
           /\ UidsOf(StoreIn(file').posts) = <<1, 2>>
           /\ StoreIn(file').posts = Tail(StoreIn(file).posts)
    /\ (/\ Saving(1)
        /\ threads[1].op = "update_submit"
        /\ threads[1].uid = 2
        /\ HoldsStore(file)
        /\ UidsOf(StoreIn(file).posts) = <<1, 2>>
        /\ strip(threads[1].form.title) = StoreIn(file).posts[2].title
        /\ strip(threads[1].form.content) = StoreIn(file).posts[2].content)
        => /\ HoldsStore(file')
           /\ StoreIn(file') =
                [StoreIn(file) EXCEPT
                    !.posts[2].author = strip(threads[1].form.author)]

\* C12 as stated: seeding a missing file gives posts 0 and 1 and the counter
\* 2; the create that follows gives uid 2 and the counter 3; delete(0) then
\* leaves uids 1 and 2; an update of uid 2 that changes the author changes
\* nothing else.
C12_EndToEndCounterNext ==
    [][EndToEnd(1)]_vars

\* C12 as amended: seeding a missing file gives posts 0 and 1 and the
\* counter 1; the create that follows gives uid 2 and the counter 2;
\* delete(0) then leaves uids 1 and 2; an update of uid 2 that changes the
\* author changes nothing else.
C12_EndToEnd ==
    [][EndToEnd(0)]_vars

\* C12's case: the end of the scenario, post 2 with its new author.
C12_Witness ==
    /\ started = "main"
    /\ deleted = {0}
    /\ threads[1].pc = "done"
    /\ threads[1].op = "update_submit"
    /\ threads[1].uid = 2
    /\ threads[1].form = RenamedForm
    /\ HoldsStore(file)
    /\ StoreIn(file).max_uid = 2
    /\ UidsOf(StoreIn(file).posts) = <<1, 2>>
    /\ StoreIn(file).posts[2] =
        [uid |-> 2, author |-> <<"x">>, title |-> <<"b">>, content |-> <<"c">>]

\* What the request of a thread makes of the file it loaded, on its own.
AppliedAlone(th) ==
    Handle(th, th.base, <<>>, load_blog_data(th.base, <<>>, "ok")).file

\* C13: when a request saves after another request has saved since it
\* loaded, the file becomes what this request alone makes of the file it
\* had loaded: the change the other request saved in between is discarded,
\* and both requests answer with their redirect.
C13_LaterSaveDiscards ==
    [][\A t \in Threads :
        (Saving(t) /\ threads[t].stale /\ threads[t].o.save = "ok")
            => /\ file' = AppliedAlone(threads[t])
               /\ last'.resp = "redirect_index"]_vars

\* C13's case: a create and a delete that both loaded the seeded file, both
\* answered with the redirect; the file has the delete and not the new post.
C13_Witness ==
    /\ threads[1].pc = "done" /\ threads[2].pc = "done"
    /\ threads[1].base = threads[2].base
    /\ threads[1].op = "add_submit" /\ threads[2].op = "delete"
    /\ threads[1].o.resp = "redirect_index" /\ threads[1].o.save = "ok"
    /\ threads[2].o.resp = "redirect_index" /\ threads[2].o.save = "ok"
    /\ threads[2].stale
    /\ HoldsStore(file)
    /\ \A i \in 1..Len(StoreIn(file).posts) :
        StoreIn(file).posts[i].uid # threads[1].o.new_uid
    /\ Len(StoreIn(file).posts) = Len(StoreIn(threads[2].base).posts) - 1

\* C14: when the save of a create, update or delete request fails with an
\* I/O error, the handler still answers with the redirect to the list and
\* the change is not in the file: the file is as it was when open() failed,
\* and holds no store when the write failed after open() had truncated it.
C14_SaveFailureSilent ==
    [][(/\ last'.op \in {"add_submit", "update_submit", "delete"}
        /\ last'.save \in {"open_fails", "write_fails"})
        => /\ last'.resp = "redirect_index"
           /\ last'.save = "open_fails" => file' = file
           /\ last'.save = "write_fails" => ~HoldsStore(file')]_vars

\* C14's case: a delete of a seeded post whose save could not open the file:
\* the redirect, and the seeded store still in the file.
C14_Witness ==
    /\ started = "main"
    /\ last.op = "delete"
    /\ last.target = "present"
    /\ last.save = "open_fails"
    /\ last.resp = "redirect_index"
    /\ HoldsStore(file)
    /\ StoreIn(file) = sample_data

\* C15: validate returns the author-required message when the author is
\* empty, otherwise the title-required message when the title is empty,
\* otherwise the content-required message when the content is empty, and
\* no message exactly when none of the three is empty.
C15_ValidateOrder ==
    checked.ret # "none" =>
        /\ checked.author = <<>> => checked.ret = "Author name is required"
        /\ (checked.author # <<>> /\ checked.title = <<>>)
            => checked.ret = "Post title is required"
        /\ (checked.author # <<>> /\ checked.title # <<>>
                /\ checked.content = <<>>)
            => checked.ret = "Post content is required"
        /\ checked.ret = ""
            <=> (checked.author # <<>> /\ checked.title # <<>>
                    /\ checked.content # <<>>)

\* C15's case: the title and the content both empty, the title reported.
C15_Witness ==
    /\ checked.author # <<>>
    /\ checked.title = <<>>
    /\ checked.content = <<>>
    /\ checked.ret = "Post title is required"

\* C16: under every interleaving of concurrent create, update and delete
\* requests, the counter in the file never decreases from one write to the
\* next, and get_next_uid never returns a uid it has returned to another
\* create request.
C16_CounterAndUidsUnderThreads ==
    [][/\ file' # file => Counter(file') >= Counter(file)
       /\ \A t \in Threads :
            (/\ threads[t].pc # "loaded"
             /\ threads'[t].pc = "loaded"
             /\ threads'[t].o.new_uid # -1)
                => threads'[t].o.new_uid \notin assigned]_vars

\* C17: initialize_sample_data writes the file only when it does not exist:
\* the file then holds the two sample posts with uids 0 and 1, and the
\* first create afterwards gets uid 2; a file that exists, whether it holds
\* a store or not, is left as it is.
C17_SeedOnlyWhenAbsent ==
    [][/\ (started = "no" /\ last'.op = "main")
            => IF file.exists
               THEN file' = file /\ last'.save = "none"
               ELSE /\ HoldsStore(file')
                    /\ UidsOf(StoreIn(file').posts) = <<0, 1>>
                    /\ StoreIn(file') = sample_data
       /\ (/\ started = "main"
           /\ assigned = {0, 1}
           /\ threads[1].pc # "loaded"
           /\ threads'[1].pc = "loaded"
           /\ threads'[1].op = "add_submit")
            => threads'[1].o.new_uid = 2]_vars

\* C17's case: the first create after the seed, saved with uid 2 behind the
\* two sample posts.
C17_Witness ==
    /\ started = "main"
    /\ assigned = {0, 1, 2}
    /\ last.op = "add_submit"
    /\ last.new_uid = 2
    /\ HoldsStore(file)
    /\ SubSeq(StoreIn(file).posts, 1, 2) = sample_data.posts
    /\ UidsOf(StoreIn(file).posts) = <<0, 1, 2>>

\* C18: the requests that change nothing (the list, the create form, the
\* update form, the delete of a uid no post has) never write the file: its
\* content, or its absence, is the same after the request as before.
C18_ReadOnlyRequests ==
    [][(\/ last'.op \in {"index", "add_form", "update_form"}
        \/ (last'.op = "delete" /\ last'.target \in {"absent", "nostore"}))
        => /\ file' = file
           /\ last'.save = "none"]_vars

\* C18's case: a delete of a uid no post has while there is no file, and
\* still no file afterwards.
C18_Witness ==
    /\ last.op = "delete"
    /\ last.target = "absent"
    /\ last.resp = "redirect_index"
    /\ ~file.exists

\* The largest element of a set of numbers that is not empty.
MaxOf(S) == CHOOSE u \in S : \A w \in S : w <= u

LoadedPosts == IF last'.load = "file" THEN StoreIn(file).posts ELSE default_posts
SavedPosts == StoreIn(file').posts

\* C20: a request keeps the order of the posts: a create that succeeds puts
\* the new post last and leaves the earlier posts in their order, a delete
\* that succeeds takes one post out and keeps the others in their order, an
\* update that succeeds keeps every post at its position.
C20_OrderPreserved ==
    [][(last'.save = "ok" /\ last'.resp = "redirect_index")
        => \E loaded \in {LoadedPosts}, saved \in {SavedPosts} :
           /\ last'.op = "add_submit"
                => /\ Len(saved) = Len(loaded) + 1
                   /\ SubSeq(saved, 1, Len(loaded)) = loaded
                   /\ saved[Len(saved)].uid = last'.new_uid
           /\ last'.op = "delete"
                => \E k \in 1..Len(loaded) :
                    saved = SubSeq(loaded, 1, k - 1)
                            \o SubSeq(loaded, k + 1, Len(loaded))
           /\ last'.op = "update_submit"
                => UidsOf(saved) = UidsOf(loaded)]_vars

\* C20's case: the post in the middle of three deleted, the first and the
\* last left in their order.
C20_Witness ==
    /\ last.op = "delete"
    /\ last.save = "ok"
    /\ 1 \in deleted
    /\ HoldsStore(file)
    /\ UidsOf(StoreIn(file).posts) = <<0, 2>>

====
